---- MODULE Spec2Model ----
(***************************************************************************)
(* KnightRiderAdventure.ino: an obstacle-avoiding car with three           *)
(* ultrasonic sensors (class Eyes), two motors (class Car), the periodic   *)
(* rescueMission() and the Arduino setup()/loop() pair.                    *)
(*                                                                         *)
(* One step of the model is the code between two sensor measurement        *)
(* rounds; a measurement round (random(3,6) pings of one sensor and the    *)
(* division) is a step of its own, so that the recursion of                *)
(* measureFrontDistance is a step that may repeat.                         *)
(***************************************************************************)
EXTENDS Integers, Sequences, FiniteSets

(* ---------------- program constants ---------------- *)
MAX_DISTANCE == 300
CLEAR_PATH_AHEAD == 1
PATH_CLOSING_UP == 2
PATH_BLOCKED == 3
NARROW_ROAD_LEFT_RIGHT == 30
CLEAR_PATH_LEFT == 40
CLEAR_PATH_RIGHT == 50
SEEK_ALTERNATE_ROUTE == 60
maxSpeed == 250
minSpeed == 125
frontTh == 10
longVisionTh == 5
RescueInterval == 5000
PingDelay == 5

Situations ==
  {CLEAR_PATH_AHEAD, PATH_CLOSING_UP, PATH_BLOCKED, NARROW_ROAD_LEFT_RIGHT,
   CLEAR_PATH_LEFT, CLEAR_PATH_RIGHT, SEEK_ALTERNATE_ROUTE}

(* ---------------- bounds of the model ---------------- *)
\* the clock stops the run when a wait would pass MaxTime
MaxTime == 23000
\* the unit driver of Eyes runs in the last EyesWindow time units of the clock
EyesWindow == 300
\* setup() and the iterations of loop() at a junction run in the last
\* SeekWindow time units of the clock
SeekWindow == 7000
\* the clock of an endless run of loop() stands still after LiveWindow, and
\* after ClearWindow where the path is clear
LiveWindow == 9200
ClearWindow == 4200

(* ---------------- state ---------------- *)
VARIABLES
  front, left, right,   \* Eyes fields
  round,                \* the pings of the last measurement round (sum, count)
  car,                  \* Car::averageSpeed and the two AF_DCMotor objects
  now,                  \* millis()
  nonce, beforeEyes, longVision, previousSense,   \* globals of the sketch
  currentEyes,          \* local array of rescueMission
  commonSense,          \* local of loop(): the value commonSense() returned
  returned,             \* value returned by suggestGear / seekAlternateRoute
  pc,                   \* position in the code
  events,               \* samples, Eyes decisions and Car commands of this call
  scene,                \* what the sensors can ping in this run
  driver,               \* who calls: "loop", "eyes", "rescue", or "live" for
                        \* loop() without an end
  streak,               \* history: stagnating firings in a row, counted from
                        \* a firing that found longVision = 0
  unbroken,             \* history: stagnating firings in a row since the last
                        \* firing that did not stagnate and the last rescue
  classified            \* history: the fields the last commonSense() returned on

vars ==
  <<front, left, right, round, car, now, nonce, beforeEyes, longVision,
    previousSense, currentEyes, commonSense, returned, pc, events, scene,
    driver, streak, unbroken, classified>>

eyesVars == <<front, left, right>>
sketchVars == <<nonce, beforeEyes, longVision, previousSense, currentEyes>>
envVars == <<scene, driver>>
historyVars == <<streak, unbroken, classified>>

(* ---------------- helpers ---------------- *)
RECURSIVE Sum(_)
Sum(s) == IF s = <<>> THEN 0 ELSE Head(s) + Sum(Tail(s))

SeqMin(s) == CHOOSE x \in {s[i] : i \in DOMAIN s} : \A i \in DOMAIN s : x <= s[i]
SeqMax(s) == CHOOSE x \in {s[i] : i \in DOMAIN s} : \A i \in DOMAIN s : x >= s[i]

\* int is 16 bits on the AVR; sum/count with both operands non-negative
IntDiv(a, b) == a \div b

\* abs() of Arduino.h
Abs(x) == IF x > 0 THEN x ELSE -x

\* random(3,6): 3, 4 or 5
RandomCounts == 3..5

\* The ping sequences one round can see: any mix of the scene's values, or,
\* in a steady scene, one value for the whole round; counts are the results
\* of random(3,6) in this run.
Rounds(values, steady, counts) ==
  IF steady
    THEN {[i \in 1..n |-> v] : n \in counts, v \in values}
    ELSE UNION {[1..n -> values] : n \in counts}

\* delay(): the clock of the model stops at MaxTime; a run of the unit
\* drivers and of Spec ends there, an endless run of loop() goes on with the
\* clock standing still
CanWait(d) == driver = "live" \/ now + d <= MaxTime

\* millis() after a wait of d
Tick(d) == IF now + d <= MaxTime THEN now + d ELSE MaxTime

\* where a method returns to: the position in loop(), or its unit driver
Ret(loopPc) ==
  CASE driver \in {"loop", "live"} -> loopPc
    [] driver = "eyes" -> "done"
    [] driver = "rescue" -> "wait"

(* ---------------- class Eyes: measurement ---------------- *)
\* the sum divided by the largest count instead of the count of the round
RoundMean_FixedCount(ps) == IntDiv(Sum(ps), 5)

\* sum/count of one round
RoundMean(ps) == IntDiv(Sum(ps), Len(ps))

\* for(...) { sum += sensor.ping_cm(); delay(5); }
Round(sensor, ps) ==
  /\ CanWait(PingDelay * Len(ps))
  /\ now' = Tick(PingDelay * Len(ps))
  /\ round' = [sensor |-> sensor, pings |-> ps]

\* measureFrontDistance returning the mean of its first round, 0 included
measureFrontDistance_NoRetry(p, q) ==
  /\ pc = p
  /\ \E ps \in Rounds(scene.f, scene.steady, scene.counts) :
       /\ Round("front", ps)
       /\ front' = IntDiv(Sum(ps), Len(ps))
  /\ pc' = q
  /\ events' = Append(events, "front")
  /\ UNCHANGED <<left, right>>

\* Eyes::measureFrontDistance called at p, returning to q: a round whose
\* mean is 0 stores 0 in front and measures again
measureFrontDistance(p, q) ==
  /\ pc = p
  /\ \E ps \in Rounds(scene.f, scene.steady, scene.counts) :
       /\ Round("front", ps)
       /\ front' = RoundMean(ps)
       /\ IF RoundMean(ps) # 0
            THEN pc' = q /\ events' = Append(events, "front")
            ELSE pc' = p /\ UNCHANGED events
  /\ UNCHANGED <<left, right>>

\* measureLeftDistance measuring again after a round of mean 0, as
\* measureFrontDistance does
measureLeftDistance_Retry(p, q) ==
  /\ pc = p
  /\ \E ps \in Rounds(scene.l, scene.steady, scene.counts) :
       /\ Round("left", ps)
       /\ left' = RoundMean(ps)
       /\ IF RoundMean(ps) # 0
            THEN pc' = q /\ events' = Append(events, "left")
            ELSE pc' = p /\ UNCHANGED events
  /\ UNCHANGED <<front, right>>

\* Eyes::measureLeftDistance called at p, returning to q
measureLeftDistance(p, q) ==
  /\ pc = p
  /\ \E ps \in Rounds(scene.l, scene.steady, scene.counts) :
       /\ Round("left", ps)
       /\ left' = RoundMean(ps)
  /\ pc' = q
  /\ events' = Append(events, "left")
  /\ UNCHANGED <<front, right>>

measureRightDistance(p, q) ==
  /\ pc = p
  /\ \E ps \in Rounds(scene.r, scene.steady, scene.counts) :
       /\ Round("right", ps)
       /\ right' = RoundMean(ps)
  /\ pc' = q
  /\ events' = Append(events, "right")
  /\ UNCHANGED <<front, left>>

(* ---------------- class Eyes: decisions ---------------- *)
\* the gear table with the top threshold exclusive
GearFor_Exclusive(distance) ==
  IF distance > 275 THEN 4
  ELSE IF distance >= 200 THEN 3
  ELSE IF distance >= 100 THEN 2
  ELSE 1

\* the if-chain of Eyes::suggestGear
GearFor(distance) ==
  IF distance >= 275 THEN 4
  ELSE IF distance >= 200 THEN 3
  ELSE IF distance >= 100 THEN 2
  ELSE 1

\* commonSense() ends without a return statement when no branch matches
FallsThrough(f, l, r) ==
  /\ ~(f > 50) /\ ~(f > 40) /\ ~(f > 30)
  /\ ~(l < 8 /\ r < 8)
  /\ ~(l >= 8 /\ l > r)
  /\ ~(r >= 8 /\ r > l)

\* what the caller may read after flowing off the end of commonSense(): any
\* int; here a value that names no situation, a situation the switch of
\* loop() has no case for, and the value of the last return statement
UndefinedInts == {0, PATH_BLOCKED, CLEAR_PATH_RIGHT}

\* commonSense() with the first threshold inclusive
CommonSenseReturns_Inclusive(f, l, r) ==
  IF f >= 50 THEN {CLEAR_PATH_AHEAD}
  ELSE IF f > 40 THEN {SEEK_ALTERNATE_ROUTE}
  ELSE IF f > 30 THEN {PATH_CLOSING_UP}
  ELSE IF l < 8 /\ r < 8 THEN {NARROW_ROAD_LEFT_RIGHT}
  ELSE IF l >= 8 /\ l > r THEN {CLEAR_PATH_LEFT}
  ELSE IF r >= 8 /\ r > l THEN {CLEAR_PATH_RIGHT}
  ELSE UndefinedInts

\* commonSense() seeking an alternate route from 40 on
CommonSenseReturns_SeekFrom40(f, l, r) ==
  IF f > 50 THEN {CLEAR_PATH_AHEAD}
  ELSE IF f >= 40 THEN {SEEK_ALTERNATE_ROUTE}
  ELSE IF f > 30 THEN {PATH_CLOSING_UP}
  ELSE IF l < 8 /\ r < 8 THEN {NARROW_ROAD_LEFT_RIGHT}
  ELSE IF l >= 8 /\ l > r THEN {CLEAR_PATH_LEFT}
  ELSE IF r >= 8 /\ r > l THEN {CLEAR_PATH_RIGHT}
  ELSE UndefinedInts

\* the values commonSense() can return for the fields (f, l, r)
CommonSenseReturns(f, l, r) ==
  IF f > 50 THEN {CLEAR_PATH_AHEAD}
  ELSE IF f > 40 THEN {SEEK_ALTERNATE_ROUTE}
  ELSE IF f > 30 THEN {PATH_CLOSING_UP}
  ELSE IF l < 8 /\ r < 8 THEN {NARROW_ROAD_LEFT_RIGHT}
  ELSE IF l >= 8 /\ l > r THEN {CLEAR_PATH_LEFT}
  ELSE IF r >= 8 /\ r > l THEN {CLEAR_PATH_RIGHT}
  ELSE UndefinedInts

\* seekAlternateRoute() sending a tie of the sides to the left
SeekAlternateRouteFor_TieLeft(f, l, r) ==
  IF f <= 40 /\ (l > 80 \/ r > 80)
    THEN IF l >= r THEN CLEAR_PATH_LEFT ELSE CLEAR_PATH_RIGHT
    ELSE NARROW_ROAD_LEFT_RIGHT

\* the value of Eyes::seekAlternateRoute for the fields it has sampled
SeekAlternateRouteFor(f, l, r) ==
  IF f <= 40 /\ (l > 80 \/ r > 80)
    THEN IF l > r THEN CLEAR_PATH_LEFT ELSE CLEAR_PATH_RIGHT
    ELSE NARROW_ROAD_LEFT_RIGHT

(* ---------------- class Car ---------------- *)
GearCommands == <<"gear1", "gear2", "gear3", "gear4">>

\* averageSpeed set by the switch of Car::changeGear
GearSpeed(cmd) ==
  CASE cmd = "gear2" -> 150
    [] cmd = "gear3" -> 175
    [] cmd = "gear4" -> 200
    [] OTHER -> 125

\* AF_DCMotor::run on both motors
RunBoth(c, l, r) == [c EXCEPT !.leftRun = l, !.rightRun = r]
\* AF_DCMotor::setSpeed on both motors
SpeedBoth(c, s) == [c EXCEPT !.leftSpeed = s, !.rightSpeed = s]

\* the state of the car and the motors after one Car method
Exec(c, cmd) ==
  CASE cmd \in {"gear1", "gear2", "gear3", "gear4"} ->
         RunBoth(SpeedBoth([c EXCEPT !.averageSpeed = GearSpeed(cmd)],
                           GearSpeed(cmd)),
                 "FORWARD", "FORWARD")
    [] cmd = "reverse" -> RunBoth(c, "BACKWARD", "BACKWARD")
    [] cmd = "neutral" -> RunBoth(c, "RELEASE", "RELEASE")
    [] cmd \in {"leftTurn", "rightTurn", "leftUTurn", "rightUTurn"} ->
         \* neutral, setTopSpeed, one motor each way, delay, neutral, delay
         RunBoth(SpeedBoth(c, maxSpeed), "RELEASE", "RELEASE")

\* the delay() calls inside one Car method
Duration(cmd) ==
  CASE cmd \in {"leftTurn", "rightTurn"} -> 500 + 500
    [] cmd \in {"leftUTurn", "rightUTurn"} -> 1250 + 1000
    [] OTHER -> 0

RECURSIVE ExecAll(_, _)
ExecAll(c, cmds) ==
  IF cmds = <<>> THEN c ELSE ExecAll(Exec(c, Head(cmds)), Tail(cmds))

RECURSIVE DurationAll(_)
DurationAll(cmds) ==
  IF cmds = <<>> THEN 0 ELSE Duration(Head(cmds)) + DurationAll(Tail(cmds))

\* a run of Car methods with the delay() calls written between them,
\* followed by the returns in marks
DriveThen(cmds, wait, marks) ==
  /\ CanWait(wait + DurationAll(cmds))
  /\ now' = Tick(wait + DurationAll(cmds))
  /\ car' = ExecAll(car, cmds)
  /\ events' = events \o cmds \o marks

Drive(cmds, wait) == DriveThen(cmds, wait, <<>>)

\* Car::Car() after the two AF_DCMotor constructors
CarInit ==
  [averageSpeed |-> 150, leftSpeed |-> minSpeed, rightSpeed |-> minSpeed,
   leftRun |-> "RELEASE", rightRun |-> "RELEASE"]

(* ---------------- Eyes::commonSense ---------------- *)
commonSense_front == 
  /\ measureFrontDistance("cs_front", "cs_left")
  /\ UNCHANGED <<car, sketchVars, commonSense, returned, envVars, historyVars>>

commonSense_left == 
  /\ measureLeftDistance("cs_left", "cs_right")
  /\ UNCHANGED <<car, sketchVars, commonSense, returned, envVars, historyVars>>

commonSense_right == 
  /\ measureRightDistance("cs_right", "cs_return")
  /\ UNCHANGED <<car, sketchVars, commonSense, returned, envVars, historyVars>>

commonSense_return ==
  /\ pc = "cs_return"
  /\ \E v \in CommonSenseReturns(front, left, right) : commonSense' = v
  /\ pc' = Ret("dispatch")
  /\ events' = Append(events, "commonSense")
  /\ classified' = <<front, left, right>>
  /\ UNCHANGED <<eyesVars, round, car, now, sketchVars, returned, envVars,
                 streak, unbroken>>

(* ---------------- Eyes::suggestGear ---------------- *)
suggestGear_front ==
  /\ measureFrontDistance("sg_front", "sg_return")
  /\ UNCHANGED <<car, sketchVars, commonSense, returned, envVars, historyVars>>

suggestGear_return ==
  /\ pc = "sg_return"
  /\ returned' = GearFor(front)
  /\ pc' = Ret("act_gear")
  /\ events' = Append(events, "suggestGear")
  /\ UNCHANGED <<eyesVars, round, car, now, sketchVars, commonSense, envVars, historyVars>>

(* ---------------- Eyes::seekAlternateRoute ---------------- *)
seekAlternateRoute_front ==
  /\ measureFrontDistance("sa_front", "sa_left")
  /\ UNCHANGED <<car, sketchVars, commonSense, returned, envVars, historyVars>>

seekAlternateRoute_left ==
  /\ measureLeftDistance("sa_left", "sa_right")
  /\ UNCHANGED <<car, sketchVars, commonSense, returned, envVars, historyVars>>

seekAlternateRoute_right ==
  /\ measureRightDistance("sa_right", "sa_return")
  /\ UNCHANGED <<car, sketchVars, commonSense, returned, envVars, historyVars>>

seekAlternateRoute_return ==
  /\ pc = "sa_return"
  /\ returned' = SeekAlternateRouteFor(front, left, right)
  /\ pc' = Ret("act_route")
  /\ events' = Append(events, "seekAlternateRoute")
  /\ UNCHANGED <<eyesVars, round, car, now, sketchVars, commonSense, envVars, historyVars>>

(* ---------------- the sensors' surroundings ---------------- *)
Scene(f, l, r, steady, counts) ==
  [f |-> f, l |-> l, r |-> r, steady |-> steady, counts |-> counts]

\* fronts on both sides of every threshold of commonSense and suggestGear
ThresholdFronts == {1, 25, 30, 31, 40, 41, 50, 51, 60}
GearFronts == {99, 100, 199, 200, 274, 275, MAX_DISTANCE}
ThresholdSides == {0, 5, 7, 8, 15}

EyesScenes ==
  {Scene({f}, {l}, {r}, TRUE, RandomCounts) :
     f \in ThresholdFronts, l \in ThresholdSides, r \in ThresholdSides}
  \cup {Scene({f}, {5}, {5}, TRUE, RandomCounts) : f \in GearFronts}
  \cup {Scene({0, 1}, {0}, {5}, FALSE, RandomCounts),
        Scene({0, MAX_DISTANCE}, {5}, {5}, FALSE, RandomCounts),
        Scene({60}, {0, 15}, {5}, FALSE, RandomCounts),
        Scene({60}, {5}, {0, 8}, FALSE, RandomCounts)}

(* ---------------- unit driver of class Eyes ---------------- *)
Call(entry) ==
  /\ pc = "idle"
  /\ driver = "eyes"
  /\ pc' = entry
  /\ events' = <<>>
  /\ UNCHANGED <<eyesVars, round, car, now, sketchVars, commonSense,
                 returned, envVars, historyVars>>

CallCommonSense == Call("cs_front")
CallSuggestGear == Call("sg_front")
CallSeekAlternateRoute == Call("sa_front")

\* a second call of commonSense() after the first has returned; the driver
\* keeps the first value as loop() does, in previousSense
CallCommonSenseAgain ==
  /\ pc = "done"
  /\ driver = "eyes"
  /\ events = <<"front", "left", "right", "commonSense">>
  /\ previousSense' = commonSense
  /\ pc' = "cs_front"
  /\ UNCHANGED <<eyesVars, round, car, now, nonce, beforeEyes, longVision,
                 currentEyes, commonSense, returned, events, envVars,
                 historyVars>>

\* the globals and the objects as constructed, before setup()
Constructed ==
  /\ front = 0 /\ left = 0 /\ right = 0
  /\ round = [sensor |-> "none", pings |-> <<>>]
  /\ car = CarInit
  /\ nonce = 0
  /\ beforeEyes = <<0, 0, 0>>
  /\ longVision = 0
  /\ previousSense = 0
  /\ currentEyes = <<0, 0, 0>>
  /\ commonSense = 0
  /\ returned = 0
  /\ events = <<>>
  /\ streak = 0
  /\ unbroken = 0
  /\ classified = <<0, 0, 0>>

InitEyes ==
  /\ Constructed
  /\ now = MaxTime - EyesWindow
  /\ scene \in EyesScenes
  /\ driver = "eyes"
  /\ pc = "idle"

NextEyes ==
  \/ CallCommonSense
  \/ CallSuggestGear
  \/ CallSeekAlternateRoute
  \/ CallCommonSenseAgain
  \/ commonSense_front
  \/ commonSense_left
  \/ commonSense_right
  \/ commonSense_return
  \/ suggestGear_front
  \/ suggestGear_return
  \/ seekAlternateRoute_front
  \/ seekAlternateRoute_left
  \/ seekAlternateRoute_right
  \/ seekAlternateRoute_return

SpecEyes == InitEyes /\ [][NextEyes]_vars

(* ---------------- setup() ---------------- *)
\* lcd banner, delay(1000), delay(3000), Car::neutral()
setup_begin ==
  /\ pc = "setup"
  /\ Drive(<<"neutral">>, 1000 + 3000)
  /\ pc' = "su_front"
  /\ UNCHANGED <<eyesVars, round, sketchVars, commonSense, returned, envVars, historyVars>>

setup_front ==
  /\ measureFrontDistance("su_front", "su_left")
  /\ beforeEyes' = IF front' # 0 THEN [beforeEyes EXCEPT ![1] = front']
                                 ELSE beforeEyes
  /\ UNCHANGED <<car, nonce, longVision, previousSense, currentEyes,
                 commonSense, returned, envVars, historyVars>>

setup_left ==
  /\ measureLeftDistance("su_left", "su_right")
  /\ beforeEyes' = [beforeEyes EXCEPT ![2] = left']
  /\ UNCHANGED <<car, nonce, longVision, previousSense, currentEyes,
                 commonSense, returned, envVars, historyVars>>

setup_right ==
  /\ measureRightDistance("su_right", "su_end")
  /\ beforeEyes' = [beforeEyes EXCEPT ![3] = right']
  /\ UNCHANGED <<car, nonce, longVision, previousSense, currentEyes,
                 commonSense, returned, envVars, historyVars>>

\* nonce = millis(); longVision = 0;
setup_end ==
  /\ pc = "su_end"
  /\ nonce' = now
  /\ longVision' = 0
  /\ pc' = Ret("loop")
  /\ UNCHANGED <<eyesVars, round, car, now, beforeEyes, previousSense,
                 currentEyes, commonSense, returned, events, envVars, historyVars>>

(* ---------------- rescueMission() ---------------- *)
\* the interval test with >= for >
Fires_Inclusive(t, n) == t - n >= RescueInterval

\* if (millis() - nonce > 5000); the clock of the model never wraps
Fires(t, n) == t - n > RescueInterval

\* df = abs(beforeEyes[0] - currentEyes[0])
Df(before, current) == Abs(before - current)

\* longVision++ without the test against longVisionTh
Stagnates_Wide(df, current) ==
  df <= frontTh /\ current > 100

\* the condition of longVision++
Stagnates(df, current) ==
  df <= frontTh /\ current > 100 /\ df <= longVisionTh

\* the rescue one firing late
Stuck_Late(df, lv, current) ==
  df <= frontTh /\ (lv > 3 \/ current < 100)

\* the rescue one firing early
Stuck_AtTwo(df, lv, current) ==
  df <= frontTh /\ (lv >= 2 \/ current < 100)

\* the condition of the rescue, lv the counter after longVision++
Stuck(df, lv, current) ==
  df <= frontTh /\ (lv > 2 \/ current < 100)

\* the baseline taken from the fields of eyes instead of currentEyes
Rebase_Fields ==
  /\ nonce' = now'
  /\ beforeEyes' = <<front, left, right>>

\* the statements that end every firing: the timer and the baseline
Rebase ==
  /\ nonce' = now'
  /\ beforeEyes' = currentEyes

\* rescueMission() is entered at the top of loop(); below the interval it
\* returns at once
rescueMission_enter ==
  /\ pc \in {"loop", "wait"}
  /\ IF Fires(now, nonce)
       THEN pc' = "rm_front" /\ events' = <<>>
       ELSE pc' = Ret("cs_front") /\ events' = <<"rescueMission">>
  /\ UNCHANGED <<eyesVars, round, car, now, sketchVars, commonSense,
                 returned, envVars, historyVars>>

rescueMission_front ==
  /\ measureFrontDistance("rm_front", "rm_left")
  /\ currentEyes' = IF front' # 0 THEN [currentEyes EXCEPT ![1] = front']
                                  ELSE currentEyes
  /\ UNCHANGED <<car, nonce, beforeEyes, longVision, previousSense,
                 commonSense, returned, envVars, historyVars>>

rescueMission_left ==
  /\ measureLeftDistance("rm_left", "rm_right")
  /\ currentEyes' = [currentEyes EXCEPT ![2] = left']
  /\ UNCHANGED <<car, nonce, beforeEyes, longVision, previousSense,
                 commonSense, returned, envVars, historyVars>>

rescueMission_right ==
  /\ measureRightDistance("rm_right", "rm_decide")
  /\ currentEyes' = [currentEyes EXCEPT ![3] = right']
  /\ UNCHANGED <<car, nonce, beforeEyes, longVision, previousSense,
                 commonSense, returned, envVars, historyVars>>

\* the history of this firing: the front moved by at most 5 and is beyond
\* 100, as in the firing before, back to one that started from longVision = 0
NextStreak ==
  IF Abs(beforeEyes[1] - currentEyes[1]) <= 5 /\ currentEyes[1] > 100
    THEN IF longVision = 0 THEN 1
         ELSE IF streak > 0 THEN streak + 1 ELSE 0
    ELSE 0

\* the history of this firing: one more firing in a row that found the front
\* moved by at most 5 and beyond 100, or none
NextUnbroken ==
  IF Abs(beforeEyes[1] - currentEyes[1]) <= 5 /\ currentEyes[1] > 100
    THEN unbroken + 1
    ELSE 0

\* a rescue that is started and left to run while loop() goes on
rescueMission_decide_NoWait ==
  /\ pc = "rm_decide"
  /\ LET df == Df(beforeEyes[1], currentEyes[1])
         lv == IF Stagnates(df, currentEyes[1])
                 THEN longVision + 1 ELSE longVision
     IN  /\ longVision' = lv
         /\ IF Stuck(df, lv, currentEyes[1])
              THEN /\ Drive(<<"gear1", "reverse">>, 50)
                   /\ UNCHANGED <<nonce, beforeEyes>>
              ELSE /\ UNCHANGED <<car, now>>
                   /\ Rebase
                   /\ events' = Append(events, "rescueMission")
  /\ pc' = Ret("cs_front")
  /\ streak' = NextStreak
  /\ unbroken' = NextUnbroken
  /\ UNCHANGED <<eyesVars, round, previousSense, currentEyes, commonSense,
                 returned, envVars, classified>>

\* from df to the two measurements of the rescue, or to the end
rescueMission_decide ==
  /\ pc = "rm_decide"
  /\ LET df == Df(beforeEyes[1], currentEyes[1])
         lv == IF Stagnates(df, currentEyes[1])
                 THEN longVision + 1 ELSE longVision
     IN  /\ longVision' = lv
         /\ IF Stuck(df, lv, currentEyes[1])
              THEN \* delay(50); changeGear(1); reverse(); delay(1000);
                   /\ Drive(<<"gear1", "reverse">>, 50 + 1000)
                   /\ pc' = "rm_rescue"
                   /\ UNCHANGED <<nonce, beforeEyes>>
              ELSE /\ UNCHANGED <<car, now>>
                   /\ Rebase
                   /\ pc' = Ret("cs_front")
                   /\ events' = Append(events, "rescueMission")
  /\ streak' = NextStreak
  /\ unbroken' = NextUnbroken
  /\ UNCHANGED <<eyesVars, round, previousSense, currentEyes, commonSense,
                 returned, envVars, classified>>

\* measureLeftDistance() > measureRightDistance(): the operands of > are
\* evaluated in either order
rescueMission_leftFirst ==
  /\ measureLeftDistance("rm_rescue", "rm_then_right")
  /\ UNCHANGED <<car, sketchVars, commonSense, returned, envVars, historyVars>>

rescueMission_rightFirst ==
  /\ measureRightDistance("rm_rescue", "rm_then_left")
  /\ UNCHANGED <<car, sketchVars, commonSense, returned, envVars, historyVars>>

rescueMission_thenRight ==
  /\ measureRightDistance("rm_then_right", "rm_uturn")
  /\ UNCHANGED <<car, sketchVars, commonSense, returned, envVars, historyVars>>

rescueMission_thenLeft ==
  /\ measureLeftDistance("rm_then_left", "rm_uturn")
  /\ UNCHANGED <<car, sketchVars, commonSense, returned, envVars, historyVars>>

\* the side taken from the triple sampled at the start of the firing
RescueTurn_Baseline(l, r) ==
  IF currentEyes[2] > currentEyes[3] THEN "leftUTurn" ELSE "rightUTurn"

\* the side of the U-turn of the rescue
RescueTurn(l, r) == IF l > r THEN "leftUTurn" ELSE "rightUTurn"

rescueMission_uturn ==
  /\ pc = "rm_uturn"
  /\ DriveThen(<<RescueTurn(left, right)>>, 0, <<"rescueMission">>)
  /\ longVision' = 0
  /\ Rebase
  /\ pc' = Ret("cs_front")
  /\ unbroken' = 0
  /\ UNCHANGED <<eyesVars, round, previousSense, currentEyes, commonSense,
                 returned, envVars, streak, classified>>

(* ---------------- loop() ---------------- *)
\* previousSense = commonSense; then the switch: CLEAR_PATH_AHEAD
loop_ClearAhead ==
  /\ pc = "dispatch"
  /\ commonSense = CLEAR_PATH_AHEAD
  /\ previousSense' = commonSense
  /\ pc' = "sg_front"
  /\ UNCHANGED <<eyesVars, round, car, now, nonce, beforeEyes, longVision,
                 currentEyes, commonSense, returned, events, envVars,
                 historyVars>>

\* car.changeGear(eyes.suggestGear())
loop_ClearAhead_gear ==
  /\ pc = "act_gear"
  /\ Drive(<<GearCommands[returned]>>, 0)
  /\ pc' = "loop"
  /\ UNCHANGED <<eyesVars, round, sketchVars, commonSense, returned, envVars,
                 historyVars>>

\* a case of the switch that samples nothing: the Car methods and delays
Act(situation, cmds, wait) ==
  /\ pc = "dispatch"
  /\ commonSense = situation
  /\ previousSense' = commonSense
  /\ Drive(cmds, wait)
  /\ pc' = "loop"
  /\ UNCHANGED <<eyesVars, round, nonce, beforeEyes, longVision, currentEyes,
                 commonSense, returned, envVars, historyVars>>

\* the case PATH_CLOSING_UP setting the second gear
loop_PathClosing_Gear2 == Act(PATH_CLOSING_UP, <<"gear2">>, 0)

loop_PathClosing == Act(PATH_CLOSING_UP, <<"gear1">>, 0)

loop_NarrowRoad ==
  Act(NARROW_ROAD_LEFT_RIGHT, <<"neutral", "reverse", "leftUTurn">>, 750)

\* the case CLEAR_PATH_LEFT turning to the other side
loop_ClearLeft_RightTurn ==
  Act(CLEAR_PATH_LEFT, <<"gear1", "reverse", "rightTurn">>, 250)

loop_ClearLeft ==
  Act(CLEAR_PATH_LEFT, <<"gear1", "reverse", "leftTurn">>, 250)

loop_ClearRight ==
  Act(CLEAR_PATH_RIGHT, <<"gear1", "reverse", "rightTurn">>, 250)

\* Car::neutral(); delay(500); then eyes.seekAlternateRoute()
loop_SeekAlternate ==
  /\ pc = "dispatch"
  /\ commonSense = SEEK_ALTERNATE_ROUTE
  /\ previousSense' = commonSense
  /\ Drive(<<"neutral">>, 500)
  /\ pc' = "sa_front"
  /\ UNCHANGED <<eyesVars, round, nonce, beforeEyes, longVision, currentEyes,
                 commonSense, returned, envVars, historyVars>>

\* the inner switch on the value of seekAlternateRoute()
RouteCommands(route) ==
  CASE route = CLEAR_PATH_LEFT -> <<"gear1", "reverse", "leftTurn", "gear1">>
    [] route = CLEAR_PATH_RIGHT -> <<"gear1", "reverse", "rightTurn", "gear1">>
    [] OTHER -> <<"gear1">>

RouteWait(route) ==
  IF route \in {CLEAR_PATH_LEFT, CLEAR_PATH_RIGHT} THEN 500 + 250 ELSE 0

loop_SeekAlternate_route ==
  /\ pc = "act_route"
  /\ Drive(RouteCommands(returned), RouteWait(returned))
  /\ pc' = "loop"
  /\ UNCHANGED <<eyesVars, round, sketchVars, commonSense, returned, envVars,
                 historyVars>>

\* the cases the switch names
Dispatched ==
  {CLEAR_PATH_AHEAD, PATH_CLOSING_UP, SEEK_ALTERNATE_ROUTE,
   NARROW_ROAD_LEFT_RIGHT, CLEAR_PATH_LEFT, CLEAR_PATH_RIGHT}

\* default: Car::neutral(); delay(100); car.rightUTurn(); delay(200);
loop_default ==
  /\ pc = "dispatch"
  /\ commonSense \notin Dispatched
  /\ previousSense' = commonSense
  /\ Drive(<<"neutral", "rightUTurn">>, 100 + 200)
  /\ pc' = "loop"
  /\ UNCHANGED <<eyesVars, round, nonce, beforeEyes, longVision, currentEyes,
                 commonSense, returned, envVars, historyVars>>

\* one steady surrounding for each case of the switch, and one whose front
\* moves between two clear distances from round to round; random(3,6) varies
\* in the narrow road and gives 3 in the others
LoopScenes ==
  {Scene({120}, {5}, {5}, TRUE, {3}),
   Scene({60, 250}, {5}, {5}, TRUE, {3}),
   Scene({35}, {5}, {5}, TRUE, {3}),
   Scene({45}, {5}, {5}, TRUE, {3}),
   Scene({25}, {5}, {5}, TRUE, RandomCounts),
   Scene({25}, {15}, {5}, TRUE, {3}),
   Scene({25}, {5}, {15}, TRUE, {3}),
   Scene({25}, {8}, {8}, TRUE, {3})}

Init ==
  /\ Constructed
  /\ now = 0
  /\ scene \in LoopScenes
  /\ driver = "loop"
  /\ pc = "setup"

Next ==
  \/ setup_begin
  \/ setup_front
  \/ setup_left
  \/ setup_right
  \/ setup_end
  \/ rescueMission_enter
  \/ rescueMission_front
  \/ rescueMission_left
  \/ rescueMission_right
  \/ rescueMission_decide
  \/ rescueMission_leftFirst
  \/ rescueMission_rightFirst
  \/ rescueMission_thenRight
  \/ rescueMission_thenLeft
  \/ rescueMission_uturn
  \/ commonSense_front
  \/ commonSense_left
  \/ commonSense_right
  \/ commonSense_return
  \/ loop_ClearAhead
  \/ suggestGear_front
  \/ suggestGear_return
  \/ loop_ClearAhead_gear
  \/ loop_PathClosing
  \/ loop_SeekAlternate
  \/ seekAlternateRoute_front
  \/ seekAlternateRoute_left
  \/ seekAlternateRoute_right
  \/ seekAlternateRoute_return
  \/ loop_SeekAlternate_route
  \/ loop_NarrowRoad
  \/ loop_ClearLeft
  \/ loop_ClearRight
  \/ loop_default

Spec == Init /\ [][Next]_vars

(* ---------------- loop() without an end ---------------- *)
\* the surroundings of loop(), one of them with a front sensor that can
\* miss the echo of a whole round; random(3,6) gives 5 there
LiveScenes ==
  {Scene({120}, {5}, {5}, TRUE, {3}),
   Scene({0, 45}, {5}, {5}, TRUE, {5}),
   Scene({35}, {0}, {5}, TRUE, {3}),
   Scene({25}, {5}, {5}, TRUE, {3}),
   Scene({25}, {15}, {5}, TRUE, {3}),
   Scene({25}, {5}, {15}, TRUE, {3}),
   Scene({25}, {8}, {8}, TRUE, {3})}

\* a clear path with a front sensor that can miss the echo of a whole round
ClearLiveScenes ==
  {Scene({0, 120}, {5}, {5}, TRUE, {5})}

InitLive ==
  /\ Constructed
  /\ \/ scene \in LiveScenes /\ now = MaxTime - LiveWindow
     \/ scene \in ClearLiveScenes /\ now = MaxTime - ClearWindow
  /\ driver = "live"
  /\ pc = "setup"

\* the calls of measureFrontDistance in setup(), rescueMission(),
\* commonSense(), suggestGear() and seekAlternateRoute()
FrontCalls == {"su_front", "rm_front", "cs_front", "sg_front", "sa_front"}

\* the front sensor gives, in the end, a round whose mean is not 0
FrontAnswers == WF_vars(Next /\ pc \in FrontCalls /\ front' # 0)

\* the processor always runs the next statement; how long a call of
\* measureFrontDistance lasts is up to the sensor
Runs == WF_vars(Next /\ pc \notin FrontCalls)

SpecLive == InitLive /\ [][Next]_vars /\ Runs /\ FrontAnswers

(* ---------------- unit driver of rescueMission() ---------------- *)
\* the waits of the driver between two calls: up to the interval, and past it
Waits == {RescueInterval, RescueInterval + 1}

\* time passes between two calls of rescueMission()
Elapse ==
  /\ pc = "wait"
  /\ driver = "rescue"
  /\ \E e \in Waits :
       /\ now < nonce + e
       /\ CanWait(nonce + e - now)
       /\ now' = nonce + e
  /\ UNCHANGED <<eyesVars, round, car, sketchVars, commonSense, returned, pc,
                 events, envVars, historyVars>>

\* a front that moves around 100 with sides that differ, and a close front
\* with sides that can tie
RescueScenes ==
  {Scene({95, 100, 104, 110, 118, 120}, {20, 30}, {25}, TRUE, RandomCounts),
   Scene({95}, {25, 30}, {25}, TRUE, RandomCounts)}

InitRescue ==
  /\ Constructed
  /\ now = 0
  /\ scene \in RescueScenes
  /\ driver = "rescue"
  /\ pc = "setup"

NextRescue ==
  \/ setup_begin
  \/ setup_front
  \/ setup_left
  \/ setup_right
  \/ setup_end
  \/ Elapse
  \/ rescueMission_enter
  \/ rescueMission_front
  \/ rescueMission_left
  \/ rescueMission_right
  \/ rescueMission_decide
  \/ rescueMission_leftFirst
  \/ rescueMission_rightFirst
  \/ rescueMission_thenRight
  \/ rescueMission_thenLeft
  \/ rescueMission_uturn

SpecRescue == InitRescue /\ [][NextRescue]_vars

(* ---------------- loop() at a junction ---------------- *)
\* the front at the two sides of the thresholds 40 and 50 from round to
\* round, the sides at the two sides of 80
SeekScenes ==
  {Scene({40, 41}, {80, 81}, {80, 81}, TRUE, {3}),
   Scene({50, 51}, {80}, {81}, TRUE, RandomCounts)}

InitSeek ==
  /\ Constructed
  /\ now = MaxTime - SeekWindow
  /\ scene \in SeekScenes
  /\ driver = "loop"
  /\ pc = "setup"

\* the steps of loop() these surroundings lead to; the clock stops before
\* the interval of rescueMission() has passed
NextSeek ==
  \/ setup_begin
  \/ setup_front
  \/ setup_left
  \/ setup_right
  \/ setup_end
  \/ rescueMission_enter
  \/ commonSense_front
  \/ commonSense_left
  \/ commonSense_right
  \/ commonSense_return
  \/ loop_ClearAhead
  \/ suggestGear_front
  \/ suggestGear_return
  \/ loop_ClearAhead_gear
  \/ loop_PathClosing
  \/ loop_SeekAlternate
  \/ seekAlternateRoute_front
  \/ seekAlternateRoute_left
  \/ seekAlternateRoute_right
  \/ seekAlternateRoute_return
  \/ loop_SeekAlternate_route

SpecSeek == InitSeek /\ [][NextSeek]_vars

(* ================= properties of class Eyes (SpecEyes) ================= *)
Last(s) == s[Len(s)]
\* the call of the unit driver has returned from the named method
Returned(method) == pc = "done" /\ events # <<>> /\ Last(events) = method
EyesStart == MaxTime - EyesWindow

\* C1: commonSense() returns the situation of the first rule that matches
\* the fields it has just sampled: f > 50 ClearAhead; 40 < f <= 50
\* SeekAlternate; 30 < f <= 40 PathClosing; f <= 30 with l < 8 and r < 8
\* NarrowCorridor; f <= 30 with l >= 8 and l > r ClearLeft; f <= 30 with
\* r >= 8 and r > l ClearRight.
C1_FirstMatchingRule ==
  Returned("commonSense") =>
    /\ front >= 1 /\ left >= 0 /\ right >= 0
    /\ (front > 50 => commonSense = CLEAR_PATH_AHEAD)
    /\ (40 < front /\ front <= 50 => commonSense = SEEK_ALTERNATE_ROUTE)
    /\ (30 < front /\ front <= 40 => commonSense = PATH_CLOSING_UP)
    /\ (front <= 30 /\ left < 8 /\ right < 8
          => commonSense = NARROW_ROAD_LEFT_RIGHT)
    /\ (front <= 30 /\ left >= 8 /\ left > right
          => commonSense = CLEAR_PATH_LEFT)
    /\ (front <= 30 /\ right >= 8 /\ right > left
          => commonSense = CLEAR_PATH_RIGHT)

C1_Witness ==
  /\ Returned("commonSense")
  /\ front = 25 /\ left = 15 /\ right = 5
  /\ commonSense = CLEAR_PATH_LEFT

\* C2: commonSense() is total: whatever triple it samples, the value it
\* returns is one of the seven situations.
C2_Total == Returned("commonSense") => commonSense \in Situations

\* C3: measureFrontDistance never returns 0: after it returns, front is the
\* non-zero mean of its last round, and it repeats a round only when the mean
\* was 0; measureLeftDistance and measureRightDistance return after one
\* round, whatever its mean.
FrontCallPcs == {"cs_front", "sg_front", "sa_front", "su_front", "rm_front"}
LeftCallPcs == {"cs_left", "sa_left", "su_left", "rm_left"}
RightCallPcs == {"cs_right", "sa_right", "su_right", "rm_right"}
FrontUsePcs == {"cs_return", "sg_return", "sa_return", "rm_decide"}

C3_FrontNeverZero ==
  /\ (round.sensor = "front" /\ pc \notin FrontCallPcs => front >= 1)
  /\ (round.sensor = "front" /\ pc \in FrontCallPcs => front = 0)
  /\ (pc \in FrontUsePcs => front >= 1)
  /\ (pc \in LeftCallPcs => round.sensor # "left")
  /\ (pc \in RightCallPcs => round.sensor # "right")

\* a front round of mean 0 was discarded, and a left round of mean 0 returned
C3_Witness ==
  /\ pc = "cs_right"
  /\ events = <<"front", "left">>
  /\ now > EyesStart + 2 * 5 * PingDelay
  /\ front >= 1
  /\ left = 0 /\ round.sensor = "left"

\* C4: a round takes 3, 4 or 5 pings, the value stored is the truncated
\* mean of exactly those pings, and it lies between the smallest and the
\* largest of them.
Measured ==
  CASE round.sensor = "front" -> front
    [] round.sensor = "left" -> left
    [] round.sensor = "right" -> right

C4_TruncatedMean ==
  round.sensor # "none" =>
    /\ Len(round.pings) \in {3, 4, 5}
    /\ \A i \in DOMAIN round.pings : round.pings[i] \in 0..MAX_DISTANCE
    /\ Measured * Len(round.pings) <= Sum(round.pings)
    /\ Sum(round.pings) < (Measured + 1) * Len(round.pings)
    /\ SeqMin(round.pings) <= Measured
    /\ Measured <= SeqMax(round.pings)

\* an accepted front round of mixed pings after a discarded one
C4_Witness ==
  /\ pc = "sg_return"
  /\ now > EyesStart + 5 * PingDelay
  /\ round = [sensor |-> "front", pings |-> <<0, MAX_DISTANCE, 0, 0>>]
  /\ front = 75

\* C5: suggestGear() returns 4 for a sampled front >= 275, 3 for 200..274,
\* 2 for 100..199 and 1 below 100; the gear is in 1..4 and is monotonic
\* non-decreasing in the distance over 1..300.
C5_GearTable ==
  Returned("suggestGear") =>
    /\ returned \in 1..4
    /\ (front >= 275 => returned = 4)
    /\ (200 <= front /\ front < 275 => returned = 3)
    /\ (100 <= front /\ front < 200 => returned = 2)
    /\ (front < 100 => returned = 1)
    /\ \A d \in 1..MAX_DISTANCE :
         /\ (d <= front => GearFor(d) <= returned)
         /\ (d >= front => GearFor(d) >= returned)

C5_Witness ==
  /\ Returned("suggestGear")
  /\ front = 274
  /\ returned = 3

(* ============ properties of rescueMission() (SpecRescue) ============ *)
CarCommands ==
  {"gear1", "gear2", "gear3", "gear4", "reverse", "neutral", "leftTurn",
   "rightTurn", "leftUTurn", "rightUTurn"}
UTurns == {"leftUTurn", "rightUTurn"}
Sampled == <<"front", "left", "right">>
RescuePcs ==
  {"rm_front", "rm_left", "rm_right", "rm_decide", "rm_rescue",
   "rm_then_left", "rm_then_right", "rm_uturn"}
RecoveryPcs == {"rm_rescue", "rm_then_left", "rm_then_right", "rm_uturn"}

\* a firing of rescueMission() has returned to its driver
FiringDone ==
  /\ pc = "wait"
  /\ Len(events) >= 4
  /\ events[1] = "front"
  /\ Last(events) = "rescueMission"

\* the events of a firing that only counts
CountedOnly == Sampled \o <<"rescueMission">>

\* the events of a firing that rescues
Rescued(s) ==
  /\ Len(s) = 9
  /\ SubSeq(s, 1, 5) = Sampled \o <<"gear1", "reverse">>
  /\ SubSeq(s, 6, 7) \in {<<"left", "right">>, <<"right", "left">>}
  /\ s[8] \in UTurns
  /\ s[9] = "rescueMission"

\* C6: from longVision = 0, of three firings in a row that each find the
\* front beyond 100 and moved by at most 5, the first two only count (1,
\* then 2) and command no motor, and the third rescues, ends in a U-turn and
\* leaves longVision at 0.
C6_ThirdStagnationRescues ==
  /\ streak \in 0..3
  /\ FiringDone =>
       /\ (streak = 1 => longVision = 1 /\ events = CountedOnly)
       /\ (streak = 2 => longVision = 2 /\ events = CountedOnly)
       /\ (streak = 3 => longVision = 0 /\ Rescued(events))

C6_Witness ==
  /\ FiringDone
  /\ streak = 3
  /\ currentEyes[1] = 118
  /\ longVision = 0
  /\ events[8] = "leftUTurn"

\* C7: in every firing, longVision is incremented iff df <= 10, the front is
\* beyond 100 and df <= 5; the rescue (gear 1, reverse, U-turn, longVision
\* back to 0) is made iff df <= 10 and the counter after the increment
\* exceeds 2 or the front is below 100; otherwise no motor is commanded.
C7_Decide ==
  pc = "rm_decide" =>
    LET prev == beforeEyes[1]
        cur == currentEyes[1]
        df == IF prev > cur THEN prev - cur ELSE cur - prev
        inc == df <= 10 /\ cur > 100 /\ df <= 5
        after == IF inc THEN longVision + 1 ELSE longVision
        rescue == df <= 10 /\ (after > 2 \/ cur < 100)
    IN  /\ longVision' = after
        /\ rescue <=> pc' = "rm_rescue"
        /\ rescue =>
             /\ events' = events \o <<"gear1", "reverse">>
             /\ car'.averageSpeed = 125
             /\ car'.leftRun = "BACKWARD" /\ car'.rightRun = "BACKWARD"
        /\ ~rescue =>
             /\ car' = car
             /\ events' = Append(events, "rescueMission")
             /\ pc' \notin RescuePcs

C7_Finish ==
  /\ pc \in RecoveryPcs /\ pc # "rm_uturn" => pc' \in RecoveryPcs
  /\ pc = "rm_uturn" =>
       /\ longVision' = 0
       /\ \E u \in UTurns : events' = events \o <<u, "rescueMission">>
       /\ pc' \notin RescuePcs

C7_RescueIff == [][C7_Decide /\ C7_Finish]_vars

\* a rescue at close range started with the counter at 1
C7_Witness ==
  /\ pc = "rm_rescue"
  /\ longVision = 1
  /\ currentEyes[1] = 95
  /\ Last(events) = "reverse"

\* C8: every firing, whichever branch it takes, ends with beforeEyes equal
\* to the triple sampled at its start and nonce equal to the clock, and the
\* next firing starts only when more than 5000 have passed since.
C8_Step ==
  /\ pc = "rm_decide" => currentEyes = <<front, left, right>>
  /\ pc \in RecoveryPcs => currentEyes' = currentEyes
  /\ pc \in RescuePcs /\ pc' \notin RescuePcs =>
       /\ beforeEyes' = currentEyes
       /\ nonce' = now'
  /\ pc \notin RescuePcs /\ pc' \in RescuePcs => now - nonce > 5000

C8_BaselineAndTimer == [][C8_Step]_vars

\* a firing that rescued: the baseline is the first left sample, not the
\* one taken for the U-turn
C8_Witness ==
  /\ FiringDone
  /\ Rescued(events)
  /\ beforeEyes = currentEyes
  /\ beforeEyes[2] # left
  /\ nonce = now

\* C9: called when at most 5000 have passed since nonce, rescueMission()
\* samples nothing and changes neither the baseline, the counter, the timer,
\* nor the car; it fires only beyond 5000.
C9_Step ==
  pc = "wait" /\ now' = now =>
    /\ UNCHANGED <<front, left, right, round, car, nonce, beforeEyes,
                   longVision, currentEyes>>
    /\ IF now - nonce <= 5000
         THEN pc' = "wait" /\ events' = <<"rescueMission">>
         ELSE pc' = "rm_front" /\ events' = <<>>

C9_NoOpWithinInterval == [][C9_Step]_vars

\* a call exactly 5000 after a firing that counted has returned at once
C9_Witness ==
  /\ pc = "wait"
  /\ now - nonce = 5000
  /\ longVision = 1
  /\ events = <<"rescueMission">>

(* ================= properties of loop() (Spec) ================= *)
Has(s, x) == \E i \in DOMAIN s : s[i] = x
Pos(s, x) == CHOOSE i \in DOMAIN s : s[i] = x
IsPrefix(a, b) == Len(a) <= Len(b) /\ SubSeq(b, 1, Len(a)) = a
Count(s, x) == Cardinality({i \in DOMAIN s : s[i] = x})

\* what rescueMission() can have logged when it returns
RescueLogs ==
  {<<>>, Sampled}
  \cup {Sampled \o <<"gear1", "reverse">> \o m \o <<u>> :
          m \in {<<"left", "right">>, <<"right", "left">>}, u \in UTurns}

Classified == Sampled \o <<"commonSense">>
ClassifyPcs == {"cs_front", "cs_left", "cs_right", "cs_return"}
DispatchPcs ==
  {"dispatch", "sg_front", "sg_return", "act_gear", "sa_front", "sa_left",
   "sa_right", "sa_return", "act_route"}

\* the part of the log before the return of rescueMission(), and after it
BeforeReturn == SubSeq(events, 1, Pos(events, "rescueMission") - 1)
AfterReturn ==
  SubSeq(events, Pos(events, "rescueMission") + 1, Len(events))

\* C10: every iteration of loop() runs rescueMission(), then commonSense(),
\* then the switch on its value; a rescue is complete (gear 1, reverse,
\* U-turn, longVision 0, baseline and timer) before the first sample of
\* commonSense() and nothing of commonSense() or the switch lies inside it.
C10_Order ==
  driver = "loop" =>
    /\ pc \in RescuePcs =>
         /\ ~Has(events, "rescueMission")
         /\ ~Has(events, "commonSense")
         /\ \E full \in RescueLogs : IsPrefix(events, full)
    /\ pc \in ClassifyPcs \cup DispatchPcs
         \/ (pc = "loop" /\ Has(events, "commonSense")) =>
         /\ Count(events, "rescueMission") = 1
         /\ BeforeReturn \in RescueLogs
         /\ IF pc \in ClassifyPcs
              THEN /\ IsPrefix(AfterReturn, Classified)
                   /\ AfterReturn # Classified
              ELSE /\ IsPrefix(Classified, AfterReturn)
                   /\ Count(events, "commonSense") = 1
         /\ Len(BeforeReturn) > 3 =>
              /\ longVision = 0
              /\ beforeEyes = currentEyes
              /\ car.leftSpeed = maxSpeed \/ pc \notin ClassifyPcs
    /\ pc \in DispatchPcs \ {"dispatch"} \/ pc = "loop" =>
         previousSense = commonSense

\* an iteration whose rescueMission() rescued, then classified and acted
C10_Witness ==
  /\ driver = "loop"
  /\ pc = "loop"
  /\ Len(events) > 13
  /\ events[8] \in UTurns
  /\ events[9] = "rescueMission"
  /\ events[13] = "commonSense"

\* the Car commands and samples logged after commonSense() returned
DispatchLog == SubSeq(events, Pos(events, "commonSense") + 1, Len(events))
Reverses == {"reverse"}
LeftTurns == {"leftTurn", "leftUTurn"}
RightTurns == {"rightTurn", "rightUTurn"}
\* the gear whose speed is the car's averageSpeed
GearOf(c) == (c.averageSpeed - 125) \div 25 + 1
Forward(c) == c.leftRun = "FORWARD" /\ c.rightRun = "FORWARD"
Released(c) == c.leftRun = "RELEASE" /\ c.rightRun = "RELEASE"

\* C11: the switch of loop() executes the action of the value commonSense()
\* returned: ClearAhead samples the front once more and sets the gear of
\* that sample, no reverse, no turn; PathClosing sets gear 1, no reverse, no
\* turn; NarrowCorridor releases, reverses, left U-turn; ClearLeft gear 1,
\* reverse, left quarter turn; ClearRight gear 1, reverse, right quarter
\* turn. No left turn for ClearRight, no right turn for ClearLeft.
C11_DispatchTable ==
  driver = "loop" /\ Has(events, "commonSense") =>
    /\ commonSense \in {CLEAR_PATH_AHEAD, PATH_CLOSING_UP} =>
         \A i \in DOMAIN DispatchLog :
           DispatchLog[i] \notin Reverses \cup LeftTurns \cup RightTurns
    /\ commonSense = CLEAR_PATH_RIGHT =>
         \A i \in DOMAIN DispatchLog : DispatchLog[i] \notin LeftTurns
    /\ commonSense = CLEAR_PATH_LEFT =>
         \A i \in DOMAIN DispatchLog : DispatchLog[i] \notin RightTurns
    /\ pc = "loop" =>
         /\ commonSense = CLEAR_PATH_AHEAD =>
              /\ Len(DispatchLog) = 3
              /\ SubSeq(DispatchLog, 1, 2) = <<"front", "suggestGear">>
              /\ DispatchLog[3] =
                   (IF front >= 275 THEN "gear4"
                    ELSE IF front >= 200 THEN "gear3"
                    ELSE IF front >= 100 THEN "gear2" ELSE "gear1")
              /\ GearOf(car) = returned
              /\ DispatchLog[3] = GearCommands[GearOf(car)]
              /\ Forward(car)
         /\ commonSense = PATH_CLOSING_UP =>
              /\ DispatchLog = <<"gear1">>
              /\ GearOf(car) = 1 /\ Forward(car)
         /\ commonSense = NARROW_ROAD_LEFT_RIGHT =>
              /\ DispatchLog = <<"neutral", "reverse", "leftUTurn">>
              /\ Released(car)
         /\ commonSense = CLEAR_PATH_LEFT =>
              /\ DispatchLog = <<"gear1", "reverse", "leftTurn">>
              /\ GearOf(car) = 1 /\ Released(car)
         /\ commonSense = CLEAR_PATH_RIGHT =>
              /\ DispatchLog = <<"gear1", "reverse", "rightTurn">>
              /\ GearOf(car) = 1 /\ Released(car)

\* an iteration that found the path clear and set the gear of a front
\* sample taken after the classification
C11_Witness ==
  /\ driver = "loop" /\ pc = "loop"
  /\ Has(events, "commonSense")
  /\ commonSense = CLEAR_PATH_AHEAD
  /\ scene.f = {60, 250}
  /\ front = 250
  /\ Last(events) = "gear3"
  /\ car.averageSpeed = 175


(* ============ properties of loop() at a junction (SpecSeek) ============ *)
\* an iteration of loop() that took the case SEEK_ALTERNATE_ROUTE has ended
SeekCycleDone ==
  /\ driver = "loop" /\ pc = "loop"
  /\ Has(events, "commonSense")
  /\ commonSense = SEEK_ALTERNATE_ROUTE

Resampled == <<"neutral">> \o Sampled \o <<"seekAlternateRoute">>

\* C12: the case SEEK_ALTERNATE_ROUTE releases the motors, waits, samples
\* front, left and right again, and then: with front <= 40 and left > 80 or
\* right > 80 it reverses, makes a quarter turn to the left if left > right
\* and to the right otherwise (a tie included) and sets gear 1 again; in
\* every other case it only sets gear 1, with no reverse and no turn.
C12_SeekAlternate ==
  SeekCycleDone =>
    /\ IsPrefix(Resampled, DispatchLog)
    /\ LET tail == SubSeq(DispatchLog, Len(Resampled) + 1, Len(DispatchLog))
       IN  IF front <= 40 /\ (left > 80 \/ right > 80)
             THEN /\ tail = <<"gear1", "reverse",
                              IF left > right THEN "leftTurn" ELSE "rightTurn",
                              "gear1">>
             ELSE /\ tail = <<"gear1">>
    /\ GearOf(car) = 1
    /\ Forward(car)

\* the front fell from 41 to 40 and the sides tie beyond 80: a right turn
C12_Witness ==
  /\ SeekCycleDone
  /\ front = 40 /\ left = 81 /\ right = 81
  /\ Len(events) > 2
  /\ events[Len(events) - 1] = "rightTurn"
  /\ Last(events) = "gear1"


(* ============ properties of loop(), continued (Spec) ============ *)
\* C13: when commonSense() matched none of its rules (front <= 30 with
\* left = right >= 8), or its value has no case in the switch, the iteration
\* takes the default case and nothing else: motors released, a short wait, a
\* right U-turn.
C13_Step ==
  pc = "dispatch"
    /\ (FallsThrough(front, left, right) \/ commonSense \notin Dispatched) =>
    /\ events' = events \o <<"neutral", "rightUTurn">>
    /\ Released(car')
    /\ pc' = "loop"

C13_SafeFallback == [][C13_Step]_vars


\* what a step adds to the log (the log starts again with each iteration)
NewEvents ==
  IF IsPrefix(events, events')
    THEN SubSeq(events', Len(events) + 1, Len(events'))
    ELSE events'
HigherGears == {"gear2", "gear3", "gear4"}
\* the steps of the switch and of the rescue that call changeGear(1)
OverridePcs == {"dispatch", "act_route", "rm_decide"}

\* C14: the gear changes only through changeGear(): in the ClearAhead case
\* to the value suggestGear() returned for its front sample, or to gear 1 in
\* a maneuver of the switch or of the rescue; a gear above 1 is only ever
\* the value of suggestGear().
C14_Step ==
  /\ \A i \in DOMAIN NewEvents :
       /\ NewEvents[i] \in HigherGears =>
            /\ pc = "act_gear"
            /\ commonSense = CLEAR_PATH_AHEAD
            /\ returned \in 2..4
            /\ NewEvents = <<GearCommands[returned]>>
            /\ returned = (IF front >= 275 THEN 4
                           ELSE IF front >= 200 THEN 3 ELSE 2)
            /\ front >= 100
       /\ NewEvents[i] = "gear1" =>
            \/ pc \in OverridePcs
            \/ pc = "act_gear" /\ returned = 1 /\ front < 100
  /\ car'.averageSpeed # car.averageSpeed =>
       /\ \E i \in DOMAIN NewEvents : NewEvents[i] \in HigherGears \cup {"gear1"}
       /\ \/ pc = "act_gear" /\ GearOf(car') = returned
          \/ pc \in OverridePcs /\ GearOf(car') = 1
  /\ GearOf(car') \in 1..4

C14_GearChanges == [][C14_Step]_vars

\* the rescue sets gear 1 where the switch had set the gears of 60 and 250
C14_Witness ==
  /\ driver = "loop"
  /\ pc = "rm_rescue"
  /\ scene.f = {60, 250}
  /\ currentEyes[1] = 250
  /\ GearOf(car) = 1
  /\ Last(events) = "reverse"


(* ========= properties of rescueMission(), continued (SpecRescue) ========= *)
\* C15: between firings longVision is the number of firings in a row, up to
\* the latest one, that found the front beyond 100 and moved by at most 5,
\* counted since the last rescue: a firing that does not stagnate starts the
\* count again.
C15_ConsecutiveCount ==
  driver = "rescue" /\ pc = "wait" => longVision = unbroken


(* ============ properties of class Eyes, continued (SpecEyes) ============ *)
\* every ping of a sensor gives the same value in this run
FixedSensors ==
  /\ scene.steady
  /\ Cardinality(scene.f) = 1
  /\ Cardinality(scene.l) = 1
  /\ Cardinality(scene.r) = 1

\* two calls of commonSense() in a row have returned
TwoCalls ==
  /\ driver = "eyes" /\ pc = "done"
  /\ events = Classified \o Classified

\* C16: with every ping of a sensor giving the same value, two calls of
\* commonSense() in a row return the same value, whatever counts random(3,6)
\* gives in each call.
C16_SameTwice ==
  TwoCalls /\ FixedSensors => commonSense = previousSense


\* C17: the rescue takes the side of its U-turn from the left and right
\* samples made after the reverse, not from the triple sampled at the start
\* of the firing: a left U-turn iff that left > that right, a right U-turn
\* otherwise, a tie included; one U-turn per rescue, and longVision is 0
\* after it.
C17_Step ==
  /\ pc = "rm_uturn" =>
       /\ Len(events) = 7
       /\ SubSeq(events, 1, 5) = Sampled \o <<"gear1", "reverse">>
       /\ SubSeq(events, 6, 7) \in {<<"left", "right">>, <<"right", "left">>}
       /\ round.sensor \in {"left", "right"}
       /\ Measured = RoundMean(round.pings)
       /\ events' =
            events \o <<IF left > right THEN "leftUTurn" ELSE "rightUTurn",
                        "rescueMission">>
       /\ longVision' = 0
       /\ pc' \notin RescuePcs
  /\ pc \in RescuePcs \ {"rm_uturn"} =>
       \A i \in DOMAIN NewEvents : NewEvents[i] \notin UTurns
  /\ pc \notin RescuePcs /\ driver = "rescue" =>
       \A i \in DOMAIN NewEvents : NewEvents[i] \notin UTurns

C17_FreshSides == [][C17_Step]_vars

\* the left was the larger side at the start of the firing and ties with the
\* right after the reverse: a right U-turn
C17_Witness ==
  /\ FiringDone
  /\ Rescued(events)
  /\ currentEyes[2] > currentEyes[3]
  /\ left = right
  /\ events[8] = "rightUTurn"
  /\ longVision = 0


(* ============ properties of loop(), continued (Spec) ============ *)
\* C18: longVision is 0 when setup() starts the loop, it is 0, 1 or 2 at
\* the start and at the end of every iteration of loop(), and it is 3 only
\* inside a firing of rescueMission() that is making its rescue, which sets
\* it to 0 before it returns.
C18_Step ==
  /\ longVision \in 0..3 /\ longVision' \in 0..3
  /\ pc = "setup" => longVision = 0
  /\ pc' = "loop" => longVision' \in 0..2
  /\ longVision' = 3 => pc' \in RecoveryPcs
  /\ pc \in RecoveryPcs /\ pc' \notin RecoveryPcs =>
       /\ longVision' = 0
       /\ pc = "rm_uturn"

C18_CounterRange == [][C18_Step]_vars

\* the third stagnating firing in a row inside loop() has counted to 3,
\* made its rescue and returned with the counter at 0
C18_Witness ==
  /\ driver = "loop"
  /\ pc = "cs_front"
  /\ streak = 3
  /\ currentEyes[1] > 100
  /\ Rescued(events)
  /\ longVision = 0

(* ======= properties of loop() at a junction, continued (SpecSeek) ======= *)
\* the part of the log after seekAlternateRoute() returned
RouteLog ==
  SubSeq(DispatchLog, Len(Resampled) + 1, Len(DispatchLog))
Turned ==
  \E i \in DOMAIN RouteLog :
    RouteLog[i] \in Reverses \cup LeftTurns \cup RightTurns

\* C19: when seekAlternateRoute() samples the same front, left and right as
\* commonSense() did in the same iteration, the case SEEK_ALTERNATE_ROUTE
\* neither reverses nor turns and ends in gear 1 forward; it turns only when
\* the front was above 40 for commonSense() and at most 40 for
\* seekAlternateRoute().
C19_NoTurnUnchanged ==
  SeekCycleDone =>
    /\ 40 < classified[1] /\ classified[1] <= 50
    /\ classified = <<front, left, right>> =>
         /\ ~Turned
         /\ RouteLog = <<"gear1">>
         /\ GearOf(car) = 1 /\ Forward(car)
    /\ Turned => classified[1] > 40 /\ front <= 40 /\ front < classified[1]

\* the same readings twice, the front at 41 and the left beyond 80: gear 1
\* and no turn
C19_Witness ==
  /\ SeekCycleDone
  /\ classified = <<front, left, right>>
  /\ front = 41 /\ left = 81
  /\ DispatchLog = Resampled \o <<"gear1">>


(* ============ properties of loop() without an end (SpecLive) ============ *)
\* a round of the front sensor whose mean is 0, at a call of
\* measureFrontDistance: the call stays where it is and nothing but the clock,
\* the round and the field front changes
C20_ZeroRound ==
  pc \in FrontCallPcs /\ front' = 0 =>
    /\ pc' = pc
    /\ UNCHANGED <<left, right, car, sketchVars, commonSense, returned,
                   events, envVars, historyVars>>

\* a rescue that has started goes on until rescueMission() returns, a case
\* of the switch that has started goes on until the iteration ends
C20_NoWayOut ==
  /\ pc \in RecoveryPcs => pc' \in RecoveryPcs \cup {"cs_front"}
  /\ pc \in DispatchPcs => pc' \in DispatchPcs \cup {"loop"}

\* C20: with a front sensor that gives, in the end, a round of non-zero mean
\* at every call of measureFrontDistance, every iteration of loop() runs to
\* its end, and with it every rescue and every case of the switch that has
\* started; and while the rounds of the front sensor have mean 0,
\* measureFrontDistance does not return and loop() makes no classification
\* and commands no motor.
C20_RunsToCompletion ==
  /\ []<>(pc = "loop")
  /\ [][C20_ZeroRound /\ C20_NoWayOut]_vars

\* a round of the front sensor of mean 0 has been discarded inside a firing
\* of rescueMission() in a run of loop() without an end
C20_Witness ==
  /\ driver = "live"
  /\ pc = "rm_front"
  /\ round.sensor = "front"
  /\ front = 0
  /\ events = <<>>

====
